---- MODULE Spec2Model ----
(***************************************************************************)
(* A model of wled_scanner: the zeroconf discovery listener and            *)
(* perform_scan of scan.py, and the places.sqlite bookmark writer of       *)
(* bookmark.py.                                                            *)
(*                                                                         *)
(* The specifications share the variables:                                 *)
(*   Spec         perform_scan: the calling thread, the countdown thread   *)
(*                and the browser's callback thread, which runs the        *)
(*                listener's handlers (resolution outside the lock);       *)
(*   HandlerSpec  the subscribed listener with its handlers running on     *)
(*                two concurrent threads;                                  *)
(*   BrowserSpec  the subscribed listener with its handlers running one    *)
(*                after another on the browser's callback thread;          *)
(*   SeqSpec      the listener alone, its handlers called one after        *)
(*                another with resolution always succeeding;               *)
(*   StoreSpec    add_bookmark against a places.sqlite store;              *)
(*   FolderSpec   get_parent_folder_id on one cursor;                      *)
(*   BackupSpec   runs that call backup_places_db and then add_bookmark;   *)
(*   MainSpec     bookmark.py's main.                                      *)
(* FairSpec is Spec with the fairness of thread scheduling; BlockingSpec   *)
(* is perform_scan with two callback threads and with that fairness        *)
(* except for get_service_info, which may block for ever.                  *)
(***************************************************************************)
EXTENDS Integers, Sequences, FiniteSets, TLC

VARIABLES
    services,       \* MyListener.services: the list of service_info dicts
    seen_services,  \* MyListener.seen_services: set of names
    lock,           \* MyListener.lock: "free" or the thread holding it
    handler,        \* per callback thread: pc, event kind, name, resolved service_info
    delivered,      \* number of events the browser has dispatched so far
    hist,           \* history: per name, the last event dispatched, whether an add
                    \* was dispatched since the last remove, and whether a
                    \* resolution for it returned no info
    zc,             \* the Zeroconf object: "none", "open", "closed"
    scanPc,         \* perform_scan's position
    via,            \* how the wait ended: "none", "timer", "interrupt"
    duration,       \* perform_scan's discovery_time argument
    cdPc,           \* countdown thread: "notstarted", "loop", "done"
    remaining,      \* display_countdown's loop variable
    output,         \* output['discovered_services']: a reference to a list
    json_output,    \* the serialized document (a value), or NoDoc
    file,           \* content of output_file
    returned,       \* the value perform_scan returned: a reference to a list
    db,             \* the committed places.sqlite store
    db0,            \* the store as it was before the first call
    clock,          \* datetime.utcnow() in microseconds
    calls,          \* number of store operations performed
    call,           \* the last store operation: arguments, failure point, result
    cursor,         \* the cursor handed to get_parent_folder_id: whether its
                    \* connection is open, and the store as that connection
                    \* sees it (its uncommitted inserts included)
    backup,         \* the file places_backup.sqlite beside the store
    ledger,         \* the file bookmarks_added.json (BOOKMARKS_RECORD_FILE)
    restore,        \* args.restore of bookmark.py's main
    mainPc,         \* the position of bookmark.py's main
    json_file       \* the file main saves the discovered services to

scanVars == <<services, seen_services, lock, handler, delivered, hist, zc, scanPc,
              via, duration, cdPc, remaining, output, json_output, file, returned>>
persistVars == <<cursor, backup, ledger, restore, mainPc, json_file>>
storeVars == <<db, db0, clock, calls, call, persistVars>>
vars == <<scanVars, storeVars>>

-----------------------------------------------------------------------------
(* Bounds *)

MaxEvents == 2       \* events the browser dispatches during one perform_scan
MaxConcEvents == 3   \* events dispatched to the two concurrent threads
MaxSeqEvents == 4    \* handler calls made one after another
MaxDuration == 1     \* largest discovery_time tried
MaxCalls == 3        \* store operations in one run

-----------------------------------------------------------------------------
(* Inputs *)

Names == {"wled-a", "wled-b"}
Threads == {"t1", "t2"}
BrowserThread == <<"t1">>        \* the callback thread of one ServiceBrowser
ConcurrentPool == <<"t1", "t2">> \* handlers entered from two threads
service_type == "_wled._tcp.local."
Durations == {0 - 1} \cup (0..MaxDuration)

NoInfo == [none |-> TRUE]

\* What zeroconf.get_service_info can return: addresses as packed bytes,
\* a port, and properties with bytes keys and bytes (or list) values.
\* Byte 255 is never valid UTF-8.
RawInfos ==
    { [addresses  |-> << <<192, 168, 1, 10>> >>,
       port       |-> 80,
       properties |-> << << [bytes |-> <<118>>], [bytes |-> <<49>>] >>,
                         << [bytes |-> <<109>>],
                            [list |-> << [bytes |-> <<97, 255>>], [str |-> "b"] >>] >> >>],
      [addresses  |-> << <<192, 168, 1, 11>>, <<10, 0, 0, 1>> >>,
       port       |-> 80,
       properties |-> << << [bytes |-> <<118, 255>>], [bytes |-> <<50>>] >> >>] }

-----------------------------------------------------------------------------
(* Property Decoder *)

\* One byte decoded as UTF-8 with errors='ignore': an ASCII byte is its
\* character, a byte that cannot start a sequence is dropped.
Chr(b) ==
    CASE b = 49  -> "1"
      [] b = 50  -> "2"
      [] b = 97  -> "a"
      [] b = 109 -> "m"
      [] b = 118 -> "v"
      [] OTHER   -> ""

RECURSIVE DecodeBytes(_)
DecodeBytes(bs) ==
    IF bs = <<>> THEN "" ELSE Chr(Head(bs)) \o DecodeBytes(Tail(bs))

IsBytes(v) == DOMAIN v = {"bytes"}
IsList(v) == DOMAIN v = {"list"}

DecodeItem(v) == IF IsBytes(v) THEN [str |-> DecodeBytes(v.bytes)] ELSE v

DecodeValue(v) ==
    IF IsBytes(v) THEN [str |-> DecodeBytes(v.bytes)]
    ELSE IF IsList(v)
         THEN [list |-> [i \in DOMAIN v.list |-> DecodeItem(v.list[i])]]
         ELSE v

DecodeKey(k) == IF IsBytes(k) THEN DecodeBytes(k.bytes) ELSE k.str

\* decoded[key] = value, in the order of properties.items()
RECURSIVE DecodeInto(_, _)
DecodeInto(items, decoded) ==
    IF items = <<>> THEN decoded
    ELSE LET key == DecodeKey(Head(items)[1])
             value == DecodeValue(Head(items)[2])
         IN DecodeInto(Tail(items),
                       [k \in DOMAIN decoded \cup {key} |->
                            IF k = key THEN value ELSE decoded[k]])

decode_properties(properties) == DecodeInto(properties, << >>)

-----------------------------------------------------------------------------
(* MyListener *)

\* '.'.join(map(str, info.addresses[0]))
JoinAddress(addr) ==
    ToString(addr[1]) \o "." \o ToString(addr[2]) \o "."
        \o ToString(addr[3]) \o "." \o ToString(addr[4])

ServiceInfo(type, name, info) ==
    [name       |-> name,
     type       |-> type,
     address    |-> JoinAddress(info.addresses[1]),
     port       |-> info.port,
     properties |-> decode_properties(info.properties)]

ResolvedInfos(name) == {ServiceInfo(service_type, name, raw) : raw \in RawInfos}

NamesOf(list) == {list[i].name : i \in DOMAIN list}

UnseenAlways(seen, name) == TRUE

\* name not in self.seen_services
Unseen(seen, name) == name \notin seen

AddReplaces(list, seen, info) ==
    IF info.name \notin seen
    THEN [services |-> Append(list, info), seen |-> seen \cup {info.name}]
    ELSE [services |-> [i \in DOMAIN list |->
                            IF list[i].name = info.name THEN info ELSE list[i]],
          seen |-> seen]

\* add_service, under the lock
AddLocked(list, seen, info) ==
    IF Unseen(seen, info.name)
    THEN [services |-> Append(list, info), seen |-> seen \cup {info.name}]
    ELSE [services |-> list, seen |-> seen]

DictKeepOld(svc, info) ==
    [k \in DOMAIN svc \cup DOMAIN info |-> IF k \in DOMAIN svc THEN svc[k] ELSE info[k]]

\* dict.update
DictUpdate(svc, info) ==
    [k \in DOMAIN svc \cup DOMAIN info |-> IF k \in DOMAIN info THEN info[k] ELSE svc[k]]

\* index of the first record named name, 0 if none (the for loop with break)
FirstIndex(list, name) ==
    IF \E i \in DOMAIN list : list[i].name = name
    THEN CHOOSE i \in DOMAIN list :
            /\ list[i].name = name
            /\ \A j \in DOMAIN list : list[j].name = name => i <= j
    ELSE 0

UpdateOrInsert(list, info) ==
    LET i == FirstIndex(list, info.name)
    IN IF i = 0 THEN Append(list, info) ELSE [list EXCEPT ![i] = DictUpdate(list[i], info)]

\* update_service, under the lock
UpdateLocked(list, info) ==
    LET i == FirstIndex(list, info.name)
    IN IF i = 0 THEN list ELSE [list EXCEPT ![i] = DictUpdate(list[i], info)]

RemoveFilterFirstOnly(list, name) ==
    IF list # <<>> /\ Head(list).name = name THEN Tail(list) ELSE list

\* [s for s in self.services if s['name'] != name]
RemoveFilter(list, name) == SelectSeq(list, LAMBDA s : s.name # name)

\* remove_service, under the lock
RemoveLocked(list, seen, name) ==
    [services |-> RemoveFilter(list, name), seen |-> seen \ {name}]

-----------------------------------------------------------------------------
(* References to the listener's list.  A reference denotes a list object;   *)
(* sameList says it is the object self.services is bound to now, and live   *)
(* is the set of names whose dict in the list is the very dict the          *)
(* registry holds.                                                          *)

Unbound == [bound |-> FALSE, list |-> <<>>, sameList |-> FALSE, live |-> {}]

RefTo(list) == [bound |-> TRUE, list |-> list, sameList |-> TRUE, live |-> NamesOf(list)]

\* self.services.append(...) mutates the list object in place
RefAfterAdd(ref, newList) ==
    IF ref.bound /\ ref.sameList
    THEN [ref EXCEPT !.list = newList, !.live = NamesOf(newList)]
    ELSE ref

\* svc.update(...) mutates the dict in place
RefAfterUpdate(ref, info) ==
    IF ref.bound /\ info.name \in ref.live
    THEN [ref EXCEPT !.list = UpdateLocked(ref.list, info)]
    ELSE ref

\* self.services = [...] binds a new list; the records kept are the same dicts
RefAfterRemove(ref, name) ==
    IF ref.bound
    THEN [ref EXCEPT !.sameList = FALSE, !.live = ref.live \ {name}]
    ELSE ref

-----------------------------------------------------------------------------
(* History of the events dispatched *)

NoHist == [last |-> "none", added |-> FALSE, unresolved |-> FALSE]

HistAfter(h, kind) ==
    [last  |-> kind,
     added |-> IF kind = "add" THEN TRUE
               ELSE IF kind = "remove" THEN FALSE
               ELSE h.added,
     unresolved |-> h.unresolved]

Idle == [pc |-> "idle", kind |-> "none", name |-> "none", info |-> NoInfo]

-----------------------------------------------------------------------------
(* The places.sqlite store *)

NULL == 0            \* SQL NULL in an integer column (row ids start at 1)
TypeBookmark == 1
TypeFolder == 2
MenuRootId == 1      \* "Bookmarks Menu ID (usually 1)"

Folder(id, parent, position, title) ==
    [id |-> id, type |-> TypeFolder, fk |-> NULL, parent |-> parent,
     position |-> position, title |-> title, dateAdded |-> 0, lastModified |-> 0]

Bookmark(id, fk, parent, position, title, ts) ==
    [id |-> id, type |-> TypeBookmark, fk |-> fk, parent |-> parent,
     position |-> position, title |-> title, dateAdded |-> ts, lastModified |-> ts]

\* url.split("://")[-1]: a URL is kept as its parts between "://"
RevHost(url) == url[Len(url)]

Place(id, url, title) == [id |-> id, url |-> url, title |-> title, rev_host |-> RevHost(url)]

\* A profile with the menu root and an empty "LED Strips" folder under it.
BaseStore ==
    [places    |-> {},
     bookmarks |-> {Folder(MenuRootId, 0, 0, "menu"),
                    Folder(2, MenuRootId, 0, "LED Strips")},
     roots     |-> {MenuRootId}]

Urls == { <<"http", "192.168.1.10:80">>, <<"http", "192.168.1.11:80">> }
Titles == {"wled-a", "wled-b"}
Parents == {MenuRootId, 2}

\* The same profile after use: one of the URLs has been visited, and the
\* folder holds two bookmarks of the user's with a gap between their
\* positions (a row between them was deleted without renumbering).
UsedStore ==
    [places    |-> {Place(1, <<"http", "192.168.1.10:80">>, "WLED"),
                    Place(2, <<"https", "example.org/">>, "Example")},
     bookmarks |-> BaseStore.bookmarks \cup
                   {Bookmark(3, 2, 2, 0, "Example", 0), Bookmark(5, 2, 2, 2, "Example 2", 0)},
     roots     |-> {MenuRootId}]

InitStores == {BaseStore, UsedStore}

NoCall == [op |-> "none"]
NoDetails == [none |-> TRUE]

\* A profile in which no folder has been created yet: the menu root alone.
FreshStore ==
    [places    |-> {},
     bookmarks |-> {Folder(MenuRootId, 0, 0, "menu")},
     roots     |-> {MenuRootId}]

EmptyStore == [places |-> {}, bookmarks |-> {}, roots |-> {}]

\* A cursor: its connection is open or not, and the store as seen through it.
ClosedCursor == [open |-> FALSE, work |-> EmptyStore]
OpenCursor(store) == [open |-> TRUE, work |-> store]

\* Files beside the store and the script.
NoFile == [exists |-> FALSE]
CompleteCopy(store) == [exists |-> TRUE, complete |-> TRUE, content |-> store]
IncompleteCopy == [exists |-> TRUE, complete |-> FALSE]
LedgerOf(ids) == [exists |-> TRUE, ids |-> ids]

\* bookmarks_added.json as another version of the tool left it beside
\* UsedStore: one id of a bookmark that is there, one of a bookmark that
\* no longer is.
UsedLedger == LedgerOf({3, 4})

-----------------------------------------------------------------------------
(* Callback threads: the browser dispatches an event to a thread, which     *)
(* runs the listener's handler.                                             *)

Kinds == {"add", "update", "remove"}

\* The threads of a pool are interchangeable: an event goes to the first idle one.
FirstIdle(pool) ==
    LET idle == {i \in DOMAIN pool : handler[pool[i]].pc = "idle"}
    IN IF idle = {} THEN "none"
       ELSE pool[CHOOSE i \in idle : \A j \in idle : i <= j]

\* The browser calls listener.<kind>_service(zeroconf, type, name).
DispatchTo(pool, bound, t, kind, n) ==
    /\ zc = "open"
    /\ handler[t].pc = "idle"
    /\ t = FirstIdle(pool)
    /\ delivered < bound
    /\ delivered' = delivered + 1
    /\ hist' = [hist EXCEPT ![n] = HistAfter(hist[n], kind)]
    /\ handler' = [handler EXCEPT ![t] =
            [pc |-> IF kind = "remove" THEN "acquire" ELSE "resolve",
             kind |-> kind, name |-> n, info |-> NoInfo]]
    /\ UNCHANGED <<services, seen_services, lock, zc, scanPc, via, duration, cdPc,
                   remaining, output, json_output, file, returned, storeVars>>

NoInfoMarksSeen(list, seen, name) == [services |-> list, seen |-> seen \cup {name}]

\* What a handler whose resolution returned None does to the registry: the
\* `if info:` body is skipped and the handler returns.
NoInfoLocked(list, seen, name) == [services |-> list, seen |-> seen]

ResolveUnderLock(t) ==
    /\ handler[t].pc = "resolve"
    /\ lock = "free"
    /\ lock' = t
    /\ UNCHANGED <<services, seen_services, handler, delivered, hist, zc, scanPc, via,
                   duration, cdPc, remaining, output, json_output, file, returned,
                   storeVars>>

\* info = zeroconf.get_service_info(type, name); if info: ... (outside the lock)
GetServiceInfo(t) ==
    /\ handler[t].pc = "resolve"
    /\ \E r \in ResolvedInfos(handler[t].name) \cup {NoInfo} :
          IF r = NoInfo
          THEN LET n == handler[t].name
                   k == NoInfoLocked(services, seen_services, n)
               IN /\ handler' = [handler EXCEPT ![t] = Idle]
                  /\ hist' = [hist EXCEPT ![n].unresolved = TRUE]
                  /\ services' = k.services
                  /\ seen_services' = k.seen
          ELSE /\ handler' = [handler EXCEPT ![t] =
                        [handler[t] EXCEPT !.pc = "acquire", !.info = r]]
               /\ UNCHANGED <<hist, services, seen_services>>
    /\ UNCHANGED <<lock, delivered, zc, scanPc, via, duration, cdPc, remaining,
                   output, json_output, file, returned, storeVars>>

\* print(...) after the lock is released; the handler returns
PrintDone(t) ==
    /\ handler[t].pc = "print"
    /\ handler' = [handler EXCEPT ![t] = Idle]
    /\ UNCHANGED <<services, seen_services, lock, delivered, hist, zc, scanPc, via,
                   duration, cdPc, remaining, output, json_output, file, returned,
                   storeVars>>

\* with self.lock: (entry)
AcquireLock(t) ==
    /\ handler[t].pc = "acquire"
    /\ lock = "free"
    /\ lock' = t
    /\ handler' = [handler EXCEPT ![t].pc = "locked"]
    /\ UNCHANGED <<services, seen_services, delivered, hist, zc, scanPc, via, duration,
                   cdPc, remaining, output, json_output, file, returned, storeVars>>

add_service(t) ==
    /\ handler[t].pc = "locked"
    /\ handler[t].kind = "add"
    /\ LET r == AddLocked(services, seen_services, handler[t].info)
       IN /\ services' = r.services
          /\ seen_services' = r.seen
          /\ output' = IF r.services # services THEN RefAfterAdd(output, r.services)
                       ELSE output
          /\ returned' = IF r.services # services THEN RefAfterAdd(returned, r.services)
                         ELSE returned
    /\ lock' = "free"
    /\ handler' = [handler EXCEPT ![t].pc = "print"]
    /\ UNCHANGED <<delivered, hist, zc, scanPc, via, duration, cdPc, remaining,
                   json_output, file, storeVars>>

update_service(t) ==
    /\ handler[t].pc = "locked"
    /\ handler[t].kind = "update"
    /\ services' = UpdateLocked(services, handler[t].info)
    /\ output' = RefAfterUpdate(output, handler[t].info)
    /\ returned' = RefAfterUpdate(returned, handler[t].info)
    /\ lock' = "free"
    /\ handler' = [handler EXCEPT ![t].pc = "print"]
    /\ UNCHANGED <<seen_services, delivered, hist, zc, scanPc, via, duration, cdPc,
                   remaining, json_output, file, storeVars>>

remove_service(t) ==
    /\ handler[t].pc = "locked"
    /\ handler[t].kind = "remove"
    /\ LET r == RemoveLocked(services, seen_services, handler[t].name)
       IN /\ services' = r.services
          /\ seen_services' = r.seen
    /\ output' = RefAfterRemove(output, handler[t].name)
    /\ returned' = RefAfterRemove(returned, handler[t].name)
    /\ lock' = "free"
    /\ handler' = [handler EXCEPT ![t].pc = "print"]
    /\ UNCHANGED <<delivered, hist, zc, scanPc, via, duration, cdPc, remaining,
                   json_output, file, storeVars>>

-----------------------------------------------------------------------------
(* display_countdown, on its own thread *)

CountdownUntilZero(r) == r # 0

\* range(duration, 0, -1) has a next value
CountdownContinues(r) == r > 0

\* one iteration: set the spinner text, time.sleep(1)
CountdownTick ==
    /\ cdPc = "loop"
    /\ CountdownContinues(remaining)
    /\ remaining' = remaining - 1
    /\ UNCHANGED <<services, seen_services, lock, handler, delivered, hist, zc, scanPc,
                   via, duration, cdPc, output, json_output, file, returned, storeVars>>

\* the range is exhausted: spinner.stop(), print
CountdownStop ==
    /\ cdPc = "loop"
    /\ ~CountdownContinues(remaining)
    /\ cdPc' = "done"
    /\ UNCHANGED <<services, seen_services, lock, handler, delivered, hist, zc, scanPc,
                   via, duration, remaining, output, json_output, file, returned,
                   storeVars>>

-----------------------------------------------------------------------------
(* perform_scan, on the calling thread *)

NoDoc == [none |-> TRUE]
EmptyFile == [empty |-> TRUE]

\* json.dumps(output, indent=2): the text holds the records as they are now
Dumps(list) == [discovered_services |-> list]

\* Zeroconf(), MyListener(), ServiceBrowser(...), spinner.start(), then in the
\* try block: countdown_thread = threading.Thread(...); countdown_thread.start()
Subscribe ==
    /\ scanPc = "Idle"
    /\ zc' = "open"
    /\ cdPc' = "loop"
    /\ remaining' = duration
    /\ scanPc' = "Waiting"
    /\ UNCHANGED <<services, seen_services, lock, handler, delivered, hist, via,
                   duration, output, json_output, file, returned, storeVars>>

\* countdown_thread.join() returns
JoinReturns ==
    /\ scanPc = "Waiting"
    /\ cdPc = "done"
    /\ via' = "timer"
    /\ scanPc' = "Terminating"
    /\ UNCHANGED <<services, seen_services, lock, handler, delivered, hist, zc,
                   duration, cdPc, remaining, output, json_output, file, returned,
                   storeVars>>

\* except KeyboardInterrupt: spinner.stop(), print
KeyboardInterrupt ==
    /\ scanPc = "Waiting"
    /\ via' = "interrupt"
    /\ scanPc' = "Terminating"
    /\ UNCHANGED <<services, seen_services, lock, handler, delivered, hist, zc,
                   duration, cdPc, remaining, output, json_output, file, returned,
                   storeVars>>

\* finally: zeroconf.close()
Close ==
    /\ scanPc = "Terminating"
    /\ zc' = "closed"
    /\ scanPc' = "Closed"
    /\ UNCHANGED <<services, seen_services, lock, handler, delivered, hist, via,
                   duration, cdPc, remaining, output, json_output, file, returned,
                   storeVars>>

\* with listener.lock: (entry)
MainAcquire ==
    /\ scanPc = "Closed"
    /\ lock = "free"
    /\ lock' = "main"
    /\ scanPc' = "Locked"
    /\ UNCHANGED <<services, seen_services, handler, delivered, hist, zc, via,
                   duration, cdPc, remaining, output, json_output, file, returned,
                   storeVars>>

\* the snapshot: output = {'discovered_services': listener.services}
SnapshotRef(list) == RefTo(list)

Snapshot ==
    /\ scanPc = "Locked"
    /\ output' = SnapshotRef(services)
    /\ lock' = "free"
    /\ scanPc' = "Dumping"
    /\ UNCHANGED <<services, seen_services, handler, delivered, hist, zc, via,
                   duration, cdPc, remaining, json_output, file, returned, storeVars>>

\* json_output = json.dumps(output, indent=2); print;
\* with open(output_file, 'w') as f: f.write(json_output)
\* (json.dumps reads the list as it is now, outside the lock.  The decoded
\* records hold only strings, numbers and lists of them, so the TypeError
\* branch is never taken.)
WriteFile ==
    /\ scanPc = "Dumping"
    /\ json_output' = Dumps(output.list)
    /\ file' = json_output'
    /\ scanPc' = "Returning"
    /\ UNCHANGED <<services, seen_services, lock, handler, delivered, hist, zc, via,
                   duration, cdPc, remaining, output, returned, storeVars>>

\* the same, but open() or write() raises OSError: only TypeError is caught,
\* so the exception leaves the finally block and perform_scan; the file is
\* untouched (open failed) or truncated (write failed)
WriteFails ==
    /\ scanPc = "Dumping"
    /\ json_output' = Dumps(output.list)
    /\ file' \in {file, EmptyFile}
    /\ scanPc' = "raised"
    /\ UNCHANGED <<services, seen_services, lock, handler, delivered, hist, zc, via,
                   duration, cdPc, remaining, output, returned, storeVars>>

\* return listener.services
ReturnRef(list) == RefTo(list)

Return ==
    /\ scanPc = "Returning"
    /\ returned' = ReturnRef(services)
    /\ scanPc' = "returned"
    /\ UNCHANGED <<services, seen_services, lock, handler, delivered, hist, zc, via,
                   duration, cdPc, remaining, output, json_output, file, storeVars>>

-----------------------------------------------------------------------------

ListenerInit ==
    /\ services = <<>>
    /\ seen_services = {}
    /\ lock = "free"
    /\ handler = [t \in Threads |-> Idle]
    /\ delivered = 0
    /\ hist = [n \in Names |-> NoHist]

ScanIdle ==
    /\ output = Unbound
    /\ json_output = NoDoc
    /\ file = NoDoc
    /\ returned = Unbound
    /\ scanPc = "Idle"
    /\ via = "none"
    /\ cdPc = "notstarted"
    /\ remaining = 0

\* Nothing of bookmark.py is running.
PersistIdle ==
    /\ cursor = ClosedCursor
    /\ backup = NoFile
    /\ ledger = NoFile
    /\ restore = FALSE
    /\ mainPc = "none"
    /\ json_file = NoDoc

StoreIdle ==
    /\ db = BaseStore
    /\ db0 = BaseStore
    /\ clock = 0
    /\ calls = 0
    /\ call = NoCall
    /\ PersistIdle

Init ==
    /\ ListenerInit
    /\ ScanIdle
    /\ zc = "none"
    /\ duration \in Durations
    /\ StoreIdle

Dispatch(kind, n) == \E t \in Threads : DispatchTo(BrowserThread, MaxEvents, t, kind, n)

HandlerSteps ==
    \/ \E t \in Threads : GetServiceInfo(t)
    \/ \E t \in Threads : AcquireLock(t)
    \/ \E t \in Threads : add_service(t)
    \/ \E t \in Threads : update_service(t)
    \/ \E t \in Threads : remove_service(t)
    \/ \E t \in Threads : PrintDone(t)

CountdownNext == CountdownTick \/ CountdownStop

MainSteps ==
    \/ Subscribe
    \/ JoinReturns
    \/ Close
    \/ MainAcquire
    \/ Snapshot
    \/ WriteFile
    \/ WriteFails
    \/ Return

Next ==
    \/ \E kind \in Kinds, n \in Names : Dispatch(kind, n)
    \/ HandlerSteps
    \/ CountdownNext
    \/ MainSteps
    \/ KeyboardInterrupt

Spec == Init /\ [][Next]_vars

\* Threads get scheduled, sleep and get_service_info return; which events
\* arrive and whether the user interrupts is up to the environment.
Fairness ==
    /\ WF_vars(MainSteps)
    /\ WF_vars(CountdownNext)
    /\ WF_vars(HandlerSteps)

FairSpec == Spec /\ Fairness

-----------------------------------------------------------------------------
(* The subscribed listener, its handlers entered from two threads *)

HandlerInit ==
    /\ ListenerInit
    /\ ScanIdle
    /\ zc = "open"
    /\ duration = 0
    /\ StoreIdle

ConcurrentDispatch(kind, n) == \E t \in Threads : DispatchTo(ConcurrentPool, MaxConcEvents, t, kind, n)

HandlerNext ==
    \/ \E kind \in Kinds, n \in Names : ConcurrentDispatch(kind, n)
    \/ HandlerSteps

HandlerSpec == HandlerInit /\ [][HandlerNext]_vars

-----------------------------------------------------------------------------
(* perform_scan with the handlers entered from two threads, and with        *)
(* get_service_info free to block for ever: every thread is scheduled, but  *)
(* a resolution need not return.                                            *)

\* the steps of a handler from `with self.lock:` on
LockedSteps ==
    \/ \E t \in Threads : AcquireLock(t)
    \/ \E t \in Threads : add_service(t)
    \/ \E t \in Threads : update_service(t)
    \/ \E t \in Threads : remove_service(t)
    \/ \E t \in Threads : PrintDone(t)

BlockingFairness ==
    /\ WF_vars(MainSteps)
    /\ WF_vars(CountdownNext)
    /\ WF_vars(LockedSteps)

BlockingInit ==
    /\ ListenerInit
    /\ ScanIdle
    /\ zc = "none"
    /\ duration = 1
    /\ StoreIdle

\* Which identity an event is for makes no difference to the lock.
BlockingNames == {"wled-a"}

BlockingNext ==
    \/ \E kind \in Kinds, n \in BlockingNames, t \in Threads :
          DispatchTo(ConcurrentPool, MaxEvents, t, kind, n)
    \/ HandlerSteps
    \/ CountdownNext
    \/ MainSteps
    \/ KeyboardInterrupt

BlockingSpec == BlockingInit /\ [][BlockingNext]_vars /\ BlockingFairness

-----------------------------------------------------------------------------
(* The subscribed listener with one callback thread: the browser calls the  *)
(* handler of the next event when the handler of the last one has returned. *)

SerialDispatch(kind, n) ==
    \E t \in Threads : DispatchTo(BrowserThread, MaxSeqEvents, t, kind, n)

BrowserNext ==
    \/ \E kind \in Kinds, n \in Names : SerialDispatch(kind, n)
    \/ HandlerSteps

BrowserSpec == HandlerInit /\ [][BrowserNext]_vars

-----------------------------------------------------------------------------
(* The listener alone: each handler runs to completion before the next is   *)
(* called, and get_service_info always returns info.                        *)

SeqAdd(n) ==
    /\ delivered < MaxSeqEvents
    /\ \E info \in ResolvedInfos(n) :
          LET r == AddLocked(services, seen_services, info)
          IN /\ services' = r.services
             /\ seen_services' = r.seen
    /\ delivered' = delivered + 1
    /\ hist' = [hist EXCEPT ![n] = HistAfter(hist[n], "add")]
    /\ UNCHANGED <<lock, handler, zc, scanPc, via, duration, cdPc, remaining, output,
                   json_output, file, returned, storeVars>>

SeqUpdate(n) ==
    /\ delivered < MaxSeqEvents
    /\ \E info \in ResolvedInfos(n) : services' = UpdateLocked(services, info)
    /\ delivered' = delivered + 1
    /\ hist' = [hist EXCEPT ![n] = HistAfter(hist[n], "update")]
    /\ UNCHANGED <<seen_services, lock, handler, zc, scanPc, via, duration, cdPc,
                   remaining, output, json_output, file, returned, storeVars>>

SeqRemove(n) ==
    /\ delivered < MaxSeqEvents
    /\ LET r == RemoveLocked(services, seen_services, n)
       IN /\ services' = r.services
          /\ seen_services' = r.seen
    /\ delivered' = delivered + 1
    /\ hist' = [hist EXCEPT ![n] = HistAfter(hist[n], "remove")]
    /\ UNCHANGED <<lock, handler, zc, scanPc, via, duration, cdPc, remaining, output,
                   json_output, file, returned, storeVars>>

SeqNext ==
    \/ \E n \in Names : SeqAdd(n)
    \/ \E n \in Names : SeqUpdate(n)
    \/ \E n \in Names : SeqRemove(n)

SeqSpec == HandlerInit /\ [][SeqNext]_vars

-----------------------------------------------------------------------------
(* add_bookmark: one transaction on its own connection *)

MaxOf(S) == CHOOSE x \in S : \A y \in S : y <= x

\* cursor.lastrowid after an INSERT into a table with an INTEGER PRIMARY KEY
NextRowId(rows) == IF rows = {} THEN 1 ELSE MaxOf({r.id : r \in rows}) + 1

LookupNothing(places, url) == NULL

\* SELECT id FROM moz_places WHERE url = ?; fetchone(): the id, or NULL for None
LookupPlace(places, url) ==
    LET found == {pl.id : pl \in {q \in places : q.url = url}}
    IN IF found = {} THEN NULL ELSE CHOOSE id \in found : \A other \in found : id <= other

\* INSERT INTO moz_places (url, title, rev_host)
InsertPlace(w, url, title) ==
    [w EXCEPT !.places = w.places \cup {Place(NextRowId(w.places), url, title)}]

PositionByCount(bookmarks, parent_id) ==
    Cardinality({b \in bookmarks : b.parent = parent_id})

\* SELECT MAX(position) ... WHERE parent = ?; (max_position + 1) or 0
NextPosition(bookmarks, parent_id) ==
    LET positions == {b.position : b \in {c \in bookmarks : c.parent = parent_id}}
    IN IF positions = {} THEN 0 ELSE MaxOf(positions) + 1

\* INSERT INTO moz_bookmarks (type, fk, parent, position, title, dateAdded, lastModified)
InsertBookmark(w, fk, parent_id, position, title, ts) ==
    [w EXCEPT !.bookmarks =
        w.bookmarks \cup {Bookmark(NextRowId(w.bookmarks), fk, parent_id, position, title, ts)}]

RollbackKeepsWork(committed, work) == work

\* conn.rollback(): the committed store stays as it was
Rollback(committed, work) == committed

\* conn.commit()
Commit(committed, work) == work

Steps == <<"begin", "lookup", "insert_place", "max_position", "insert_bookmark", "commit">>
FailPoints == {Steps[i] : i \in DOMAIN Steps}
StepIndex(step) == CHOOSE i \in DOMAIN Steps : Steps[i] = step

\* whether the run reaches and completes step `step` when the statement at
\* failAt raises sqlite3.Error
Done(step, failAt) == failAt = "none" \/ StepIndex(step) < StepIndex(failAt)

\* The try block of add_bookmark with timestamp ts, the statement at failAt
\* (if any) raising sqlite3.Error: the committed store and the return value.
AddBookmarkRun(store, title, url, parent_id, ts, failAt) ==
    LET place    == IF Done("lookup", failAt) THEN LookupPlace(store.places, url) ELSE NULL
        w1       == IF Done("insert_place", failAt) /\ place = NULL
                    THEN InsertPlace(store, url, title) ELSE store
        place_id == IF place # NULL THEN place ELSE NextRowId(store.places)
        position == NextPosition(w1.bookmarks, parent_id)
        w2       == IF Done("insert_bookmark", failAt)
                    THEN InsertBookmark(w1, place_id, parent_id, position, title, ts)
                    ELSE w1
    IN IF failAt = "none"
       THEN [store  |-> Commit(store, w2),
             result |-> [id |-> NextRowId(w1.bookmarks), title |-> title, url |-> url,
                         parent_id |-> parent_id, dateAdded |-> ts, lastModified |-> ts]]
       ELSE [store |-> Rollback(store, w2), result |-> NoDetails]

\* The statement at failAt is one this call executes.
Executes(store, url, failAt) ==
    failAt = "insert_place" => LookupPlace(store.places, url) = NULL

add_bookmark(title, url, parent_id, failAt) ==
    /\ calls < MaxCalls
    /\ Executes(db, url, failAt)
    /\ LET r == AddBookmarkRun(db, title, url, parent_id, clock + 1, failAt)
       IN /\ db' = r.store
          /\ call' = [op |-> "add_bookmark", title |-> title, url |-> url,
                      parent_id |-> parent_id, failAt |-> failAt, result |-> r.result]
    /\ clock' = clock + 1
    /\ calls' = calls + 1
    /\ UNCHANGED <<db0, scanVars, persistVars>>

StoreInit ==
    /\ ListenerInit
    /\ ScanIdle
    /\ zc = "none"
    /\ duration = 0
    /\ db \in InitStores
    /\ db0 = db
    /\ clock = 0
    /\ calls = 0
    /\ call = NoCall
    /\ PersistIdle

StoreNext ==
    \E title \in Titles, url \in Urls, parent_id \in Parents,
       failAt \in FailPoints \cup {"none"} :
        add_bookmark(title, url, parent_id, failAt)

StoreSpec == StoreInit /\ [][StoreNext]_vars

-----------------------------------------------------------------------------
(* get_parent_folder_id, on a cursor of the caller's connection.  It never   *)
(* commits: what it inserts is seen through that connection only.           *)

FolderTitles == {"LED Strips", "menu"}
FolderFailPoints == {"lookup", "insert"}

\* the position get_parent_folder_id gives the folder it creates
FolderPosition == 0

\* what a call gives its caller: `return <id>`, or sys.exit(1)
ReturnedId(id) == [id |-> id]
ExitFailure == [exit |-> 1]

\* SELECT moz_bookmarks.id FROM moz_bookmarks JOIN moz_bookmarks_roots
\* ON moz_bookmarks.id = moz_bookmarks_roots.folder_id WHERE title = ?;
\* fetchone(): the id, or NULL for None
LookupRootFolder(store, parent_title) ==
    LET found == {b.id : b \in {c \in store.bookmarks :
                                    c.id \in store.roots /\ c.title = parent_title}}
    IN IF found = {} THEN NULL ELSE CHOOSE id \in found : \A other \in found : id <= other

\* INSERT INTO moz_bookmarks (...) VALUES (2, None, 1, 0, parent_title, now, now)
InsertFolder(w, parent_title, dateAdded, lastModified) ==
    [w EXCEPT !.bookmarks = w.bookmarks \cup
        {[id |-> NextRowId(w.bookmarks), type |-> TypeFolder, fk |-> NULL,
          parent |-> MenuRootId, position |-> FolderPosition, title |-> parent_title,
          dateAdded |-> dateAdded, lastModified |-> lastModified]}]

\* The body of get_parent_folder_id, the statement at failAt (if any) raising
\* sqlite3.Error: the store as the cursor sees it afterwards, and the outcome.
GetParentFolderRun(work, parent_title, dateAdded, lastModified, failAt) ==
    LET parent == LookupRootFolder(work, parent_title)
    IN IF failAt = "lookup" THEN [work |-> work, result |-> ExitFailure]
       ELSE IF parent # NULL THEN [work |-> work, result |-> ReturnedId(parent)]
       ELSE IF failAt = "insert" THEN [work |-> work, result |-> ExitFailure]
       ELSE [work   |-> InsertFolder(work, parent_title, dateAdded, lastModified),
             result |-> ReturnedId(NextRowId(work.bookmarks))]

\* elapsed: the time between the two datetime.utcnow() calls of the INSERT.
\* sys.exit(1) ends the process, and its connection with it.
get_parent_folder_id(parent_title, failAt, elapsed) ==
    /\ cursor.open
    /\ calls < MaxCalls
    /\ failAt = "insert" => LookupRootFolder(cursor.work, parent_title) = NULL
    /\ LET r == GetParentFolderRun(cursor.work, parent_title, clock + 1,
                                   clock + 1 + elapsed, failAt)
       IN /\ elapsed # 0 => r.work # cursor.work
          /\ cursor' = IF r.result = ExitFailure THEN ClosedCursor ELSE OpenCursor(r.work)
          /\ call' = [op |-> "get_parent_folder_id", title |-> parent_title,
                      failAt |-> failAt, result |-> r.result]
    /\ clock' = clock + 1 + elapsed
    /\ calls' = calls + 1
    /\ UNCHANGED <<db, db0, backup, ledger, restore, mainPc, json_file, scanVars>>

FolderInit ==
    /\ ListenerInit
    /\ ScanIdle
    /\ zc = "none"
    /\ duration = 0
    /\ db \in {FreshStore} \cup InitStores
    /\ db0 = db
    /\ clock = 0
    /\ calls = 0
    /\ call = NoCall
    /\ cursor = OpenCursor(db)
    /\ backup = NoFile
    /\ ledger = NoFile
    /\ restore = FALSE
    /\ mainPc = "none"
    /\ json_file = NoDoc

FolderNext ==
    \E parent_title \in FolderTitles, failAt \in FolderFailPoints \cup {"none"},
       elapsed \in {0, 1} :
        get_parent_folder_id(parent_title, failAt, elapsed)

FolderSpec == FolderInit /\ [][FolderNext]_vars

-----------------------------------------------------------------------------
(* backup_places_db *)

\* How shutil.copy2 can end: it copies the file, it raises before it has
\* created the destination, or it raises after it has created it (it does
\* not remove what it wrote).
CopyOutcomes == {"copied", "failed", "failed_partway"}

\* shutil.copy2(places_db_path, backup_db): the file at backup_db afterwards
Copy2(store, outcome) ==
    CASE outcome = "copied" -> CompleteCopy(store)
      [] outcome = "failed" -> NoFile
      [] OTHER              -> IncompleteCopy

\* the function returns (None)
Completed == [done |-> TRUE]

\* The body of backup_places_db: the backup file afterwards, and whether the
\* call returns or ends the process with sys.exit(1).
BackupPlacesDb(store, bk, outcome) ==
    IF ~bk.exists
    THEN [backup |-> Copy2(store, outcome),
          result |-> IF outcome = "copied" THEN Completed ELSE ExitFailure]
    ELSE [backup |-> bk, result |-> Completed]

backup_places_db(outcome) ==
    /\ calls < MaxCalls
    /\ backup.exists => outcome = "copied"
    /\ LET r == BackupPlacesDb(db, backup, outcome)
       IN /\ backup' = r.backup
          /\ call' = [op |-> "backup_places_db", result |-> r.result]
    /\ calls' = calls + 1
    /\ UNCHANGED <<db, db0, clock, cursor, ledger, restore, mainPc, json_file, scanVars>>

\* A run backs the store up before it changes it: bookmarks are added after
\* a call of backup_places_db that returned, in the same run.
InRun ==
    \/ call.op = "backup_places_db" /\ call.result = Completed
    \/ call.op = "add_bookmark"

BackupNext ==
    \/ \E outcome \in CopyOutcomes : backup_places_db(outcome)
    \/ InRun /\ StoreNext

BackupSpec == StoreInit /\ [][BackupNext]_vars

-----------------------------------------------------------------------------
(* main of bookmark.py: parse the arguments, back the store up, scan, save  *)
(* the discovered services.  args.restore is parsed and never read;         *)
(* BOOKMARKS_RECORD_FILE is never opened; get_parent_folder_id and          *)
(* add_bookmark are never called.                                           *)

\* backup_places_db(places_db), then the call of perform_scan begins
MainBackup(outcome) ==
    /\ mainPc = "start"
    /\ backup.exists => outcome = "copied"
    /\ LET r == BackupPlacesDb(db, backup, outcome)
       IN /\ backup' = r.backup
          /\ mainPc' = IF r.result = ExitFailure THEN "exit1" ELSE "scanning"
          /\ scanPc' = IF r.result = ExitFailure THEN scanPc ELSE "Idle"
    /\ UNCHANGED <<services, seen_services, lock, handler, delivered, hist, zc, via,
                   duration, cdPc, remaining, output, json_output, file, returned,
                   db, db0, clock, calls, call, cursor, ledger, restore, json_file>>

\* services = perform_scan(...); if not services: print, sys.exit(0)
MainCheck ==
    /\ mainPc = "scanning"
    /\ scanPc = "returned"
    /\ mainPc' = IF returned.list = <<>> THEN "exit0" ELSE "saving"
    /\ UNCHANGED <<scanVars, db, db0, clock, calls, call, cursor, backup, ledger,
                   restore, json_file>>

\* json_output = json.dumps({'discovered_services': services}, indent=2);
\* print; try: write json_file; except Exception: print.  saved says whether
\* open and write succeeded; a failure leaves the file as it was or truncated.
MainSave(saved) ==
    /\ mainPc = "saving"
    /\ json_file' \in IF saved THEN {Dumps(returned.list)} ELSE {json_file, EmptyFile}
    /\ mainPc' = "done"
    /\ UNCHANGED <<scanVars, db, db0, clock, calls, call, cursor, backup, ledger,
                   restore>>

\* The state when main is entered: the store of a profile in use, with or
\* without a ledger beside the script, --restore given or not.
MainInit ==
    /\ ListenerInit
    /\ output = Unbound
    /\ json_output = NoDoc
    /\ file = NoDoc
    /\ returned = Unbound
    /\ scanPc = "NotCalled"
    /\ via = "none"
    /\ cdPc = "notstarted"
    /\ remaining = 0
    /\ zc = "none"
    /\ duration \in Durations
    /\ db = UsedStore
    /\ db0 = db
    /\ clock = 0
    /\ calls = 0
    /\ call = NoCall
    /\ cursor = ClosedCursor
    /\ backup = NoFile
    /\ ledger \in {NoFile, UsedLedger}
    /\ restore \in BOOLEAN
    /\ mainPc = "start"
    /\ json_file = NoDoc

MainNext ==
    \/ \E outcome \in CopyOutcomes : MainBackup(outcome)
    \/ Next
    \/ MainCheck
    \/ \E saved \in BOOLEAN : MainSave(saved)

MainSpec == MainInit /\ [][MainNext]_vars

-----------------------------------------------------------------------------
(* Properties of the Discovery Engine *)

Identity(s) == <<s.name, s.type>>
RangeOf(list) == {list[i] : i \in DOMAIN list}
NoDuplicates(list) ==
    \A i, j \in DOMAIN list : Identity(list[i]) = Identity(list[j]) => i = j
ScanEnded == scanPc \in {"returned", "raised"}

\* the step in which thread t runs the locked part of its handler
LockedStep(t, kind) ==
    /\ handler[t].pc = "locked"
    /\ handler[t].kind = kind
    /\ handler'[t].pc = "print"

\* the step in which thread t's resolution returns None and the handler returns
NoInfoStep(t) ==
    /\ handler[t].pc = "resolve"
    /\ handler'[t].pc = "idle"

\* C1: in every reachable state of the listener, under any interleaving of
\* its handlers, no two records of services share an identity, and
\* seen_services is exactly the set of names of the records in services.
C1_RegistryInvariant ==
    /\ NoDuplicates(services)
    /\ seen_services = NamesOf(services)

\* An add for a name already registered has run and was absorbed.
C1_Witness ==
    \E t \in Threads :
        /\ handler[t].pc = "print"
        /\ handler[t].kind = "add"
        /\ handler[t].name \in seen_services
        /\ handler[t].info \notin RangeOf(services)
        /\ Len(services) = 1

\* C2 as stated: once the handlers called one after another have finished,
\* the registry holds exactly the identities whose last event was an add or
\* an update (not a remove), without duplicates.
C2_LastEventAddOrUpdate ==
    /\ NoDuplicates(services)
    /\ NamesOf(services) = {n \in Names : hist[n].last \in {"add", "update"}}

\* C2 amended: after handlers called one after another with resolution
\* succeeding, the registry holds exactly the identities that received an
\* add event after their last remove event (or with no remove at all),
\* without duplicates; an update alone registers nothing.
C2_AddedSinceRemove ==
    /\ NoDuplicates(services)
    /\ NamesOf(services) = {n \in Names : hist[n].added}

\* One identity was added and then updated, another was updated only, and
\* only the first is registered.
C2_Witness ==
    \E n, m \in Names :
        /\ hist[n].last = "update" /\ hist[n].added /\ n \in NamesOf(services)
        /\ hist[m].last = "update" /\ ~hist[m].added /\ m \notin NamesOf(services)

\* C3: update_service for an identity that is not in the registry changes
\* neither the sequence of records, nor any record, nor the seen set; and
\* no update_service step ever adds a record.
C3_UpdateUnknownNoOp ==
    [][\A t \in Threads :
          LockedStep(t, "update") =>
             /\ Len(services') = Len(services)
             /\ NamesOf(services') = NamesOf(services)
             /\ handler[t].name \notin NamesOf(services) =>
                   /\ services' = services
                   /\ seen_services' = seen_services]_vars

\* The only event so far was an update, its resolution succeeded, its locked
\* part has run, and the registry is still empty.
C3_Witness ==
    \E t \in Threads :
        /\ delivered = 1
        /\ handler[t].pc = "print"
        /\ handler[t].kind = "update"
        /\ services = <<>>
        /\ seen_services = {}

\* C4: a handler whose resolution returns no info leaves the registry and
\* the seen set unchanged, and an add whose resolution succeeded for an
\* identity not in the registry appends its record.
C4_NoInfoIgnored ==
    [][\A t \in Threads :
          /\ NoInfoStep(t) => UNCHANGED <<services, seen_services>>
          /\ (LockedStep(t, "add") /\ handler[t].name \notin NamesOf(services)) =>
                services' = Append(services, handler[t].info)]_vars

\* Of two events for one identity, one got no info and the other, an add,
\* has created the record.
C4_Witness ==
    \E t \in Threads :
        /\ delivered = 2
        /\ handler[t].pc = "print"
        /\ handler[t].kind = "add"
        /\ hist[handler[t].name].unresolved
        /\ \A m \in Names \ {handler[t].name} : hist[m].last = "none"
        /\ services = <<handler[t].info>>

\* C5 as stated: the value perform_scan returned is a snapshot, so no later
\* mutation of the listener's registry changes the returned sequence or a
\* record in it.
C5_ReturnedIsSnapshot ==
    [][scanPc = "returned" => returned'.list = returned.list]_vars

\* C6 as stated: on both ways into Terminating the subscription is closed
\* before the snapshot is computed, and perform_scan ends by returning the
\* records to the caller.
C6_SameCleanup ==
    /\ output.bound => zc = "closed"
    /\ ScanEnded => /\ zc = "closed"
                    /\ scanPc = "returned"
                    /\ returned.bound

\* C7: for every duration perform_scan ends with the subscription closed and
\* the countdown finished, and with duration <= 0 the countdown never sleeps.
C7_NoHang ==
    /\ <>(ScanEnded /\ zc = "closed" /\ cdPc = "done")
    /\ [][(cdPc = "loop" /\ remaining' # remaining) => duration > 0]_vars

\* A negative duration: the scan has ended without a countdown step.
C7_Witness ==
    /\ duration < 0
    /\ ScanEnded
    /\ zc = "closed"
    /\ cdPc = "done"
    /\ remaining = duration

-----------------------------------------------------------------------------
(* Properties of the Bookmark Persistence Layer *)

Children(store, parent_id) == {b \in store.bookmarks : b.parent = parent_id}
PlacesWith(store, url) == {pl \in store.places : pl.url = url}
NewBookmarks == db'.bookmarks \ db.bookmarks
NewPlaces == db'.places \ db.places

\* the step is a call of add_bookmark that failed / that returned details
AddFailed == calls' = calls + 1 /\ call'.op = "add_bookmark" /\ call'.failAt # "none"
AddSucceeded == calls' = calls + 1 /\ call'.op = "add_bookmark" /\ call'.failAt = "none"

\* C8: a call of add_bookmark in which any statement of the transaction
\* fails leaves the committed store exactly as it was (no bookmark row and
\* no URL row of the failed call) and returns None; a call that returns
\* details has committed its bookmark row.
C8_AtomicAdd ==
    [][/\ AddFailed => /\ db' = db
                       /\ call'.result = NoDetails
       /\ AddSucceeded => /\ call'.result # NoDetails
                          /\ \E b \in NewBookmarks : b.id = call'.result.id]_vars

\* The bookmark insert of a call failed after the call had inserted a URL
\* row, and the store holds neither.
C8_Witness ==
    /\ call.op = "add_bookmark"
    /\ call.failAt = "insert_bookmark"
    /\ call.result = NoDetails
    /\ PlacesWith(db, call.url) = {}
    /\ db = db0

URLUnique(store) == \A p1, p2 \in store.places : p1.url = p2.url => p1.id = p2.id

\* C9: the URL table holds at most one row per url; a successful call whose
\* url is already there inserts no URL row and gives its bookmark that
\* row's id as fk, a successful call whose url is new inserts exactly one
\* URL row, and either way the bookmark table grows by one row.
C9_UrlReuse ==
    /\ []URLUnique(db)
    /\ [][AddSucceeded =>
            /\ Cardinality(NewBookmarks) = 1
            /\ db.bookmarks \subseteq db'.bookmarks
            /\ db.places \subseteq db'.places
            /\ \A b \in NewBookmarks :
                  /\ PlacesWith(db', call'.url) = {pl \in db'.places : pl.id = b.fk}
                  /\ IF PlacesWith(db, call'.url) # {}
                     THEN db'.places = db.places
                     ELSE Cardinality(NewPlaces) = 1]_vars

\* Two bookmarks added with different titles share one URL row, the only
\* URL row added.
C9_Witness ==
    \E b1, b2 \in db.bookmarks \ db0.bookmarks :
        /\ b1.title # b2.title
        /\ b1.fk = b2.fk
        /\ Cardinality(db.places) = Cardinality(db0.places) + 1

\* C10: a successful call places its row one past the largest position
\* among the rows of its parent, or at 0 when the parent has no rows; so a
\* parent that was empty and holds only rows added by add_bookmark has them
\* at positions 0, 1, 2, ..., each position once.
C10_Positions ==
    /\ [][AddSucceeded =>
            \A b \in NewBookmarks :
                LET siblings == Children(db, call'.parent_id)
                IN /\ b.parent = call'.parent_id
                   /\ siblings = {} => b.position = 0
                   /\ siblings # {} =>
                         /\ b.position - 1 \in {c.position : c \in siblings}
                         /\ \A c \in siblings : c.position < b.position]_vars
    /\ [](\A parent_id \in Parents :
            (/\ Children(db0, parent_id) = {}
             /\ \A b \in Children(db, parent_id) : b.type = TypeBookmark) =>
                /\ {b.position : b \in Children(db, parent_id)}
                      = 0 .. (Cardinality(Children(db, parent_id)) - 1)
                /\ \A b, c \in Children(db, parent_id) : b.position = c.position => b = c)

\* Three successful adds under a parent that was empty: positions 0, 1, 2.
C10_Witness ==
    /\ Children(db0, 2) = {}
    /\ call.op = "add_bookmark"
    /\ call.failAt = "none"
    /\ {b.position : b \in Children(db, 2)} = {0, 1, 2}

\* the step is a call of get_parent_folder_id that returned an id
FolderReturned ==
    /\ calls' = calls + 1
    /\ call'.op = "get_parent_folder_id"
    /\ call'.result # ExitFailure

\* the folders titled title that the cursor sees and the store did not have
CreatedFolders(work, title) ==
    {b \in work.bookmarks \ db0.bookmarks : b.type = TypeFolder /\ b.title = title}

\* C11 as stated: when no folder had the title at first, a call of
\* get_parent_folder_id that follows a call with the same title on the same
\* cursor returns the id the first call returned and writes nothing, so the
\* title has been inserted exactly once.
C11_FolderIdempotent ==
    [][(/\ FolderReturned
        /\ call.op = "get_parent_folder_id"
        /\ call.result # ExitFailure
        /\ call.title = call'.title
        /\ \A b \in db0.bookmarks : b.title # call'.title) =>
           /\ call'.result = call.result
           /\ cursor'.work = cursor.work
           /\ Cardinality(CreatedFolders(cursor'.work, call'.title)) = 1]_vars

\* the step is a call of get_parent_folder_id that created the folder
FolderCreated == FolderReturned /\ cursor'.work # cursor.work

\* C20 as stated: the folder get_parent_folder_id creates is a child of the
\* root container 1, its position one past the largest position among the
\* root's children (0 if the root has none), so that afterwards no two
\* children of the root share a position.
C20_FolderAtEnd ==
    [][FolderCreated =>
          \A f \in cursor'.work.bookmarks \ cursor.work.bookmarks :
              LET siblings == Children(cursor.work, MenuRootId)
              IN /\ f.parent = MenuRootId
                 /\ f.position = IF siblings = {} THEN 0
                                 ELSE MaxOf({c.position : c \in siblings}) + 1
                 /\ \A c, d \in Children(cursor'.work, MenuRootId) :
                       c.position = d.position => c = d]_vars

\* C13 as stated: backup_places_db copies the store only when no backup
\* exists and leaves an existing backup untouched, so after any number of
\* runs the backup is the store as it was before the first run changed it.
C13_BackupOnce == backup.exists => backup = CompleteCopy(db0)

\* main has run to its end after a scan that returned
MainCompleted == mainPc \in {"done", "exit0"}

\* C12 as stated: once a run with --restore has completed, the bookmark
\* rows recorded in the ledger are gone and every other row of the store,
\* the URL rows included, is as it was (an entry whose bookmark was already
\* gone changes nothing); with no ledger the store is as it was.
C12_RestoreFromLedger ==
    (restore /\ MainCompleted) =>
        IF ledger.exists
        THEN /\ db.bookmarks = {b \in db0.bookmarks : b.id \notin ledger.ids}
             /\ db.places = db0.places
        ELSE db = db0

\* C15 as stated: a run of main in which every event was an add that
\* registered a service ends with one new bookmark row per discovered
\* record, all under one folder, at positions 0 .. N-1 in arrival order.
C15_EndToEnd ==
    (/\ mainPc = "done"
     /\ \A t \in Threads : handler[t].pc = "idle"
     /\ Len(services) = delivered) =>
        LET new == db.bookmarks \ db0.bookmarks
        IN /\ Cardinality(new) = Len(services)
           /\ \A b, c \in new : b.parent = c.parent
           /\ \A i \in DOMAIN services :
                 \E b \in new : b.title = services[i].name /\ b.position = i - 1

\* C14 as stated: a step of perform_scan in which writing the document to
\* output_file fails still goes on to return the records to the caller.
C14_WriteFailureNotFatal ==
    [][(scanPc = "Dumping" /\ scanPc' # "Dumping" /\ file' # json_output') =>
          scanPc' = "Returning"]_vars

\* C16 as stated: when the handlers of an add and of a remove for one
\* identity have run concurrently and the remove was the last event
\* delivered for it, then with every handler finished the identity is in
\* neither the records nor the seen set.
C16_RemoveDeliveredLast ==
    \A n \in Names :
        (/\ hist[n].last = "remove"
         /\ \A t \in Threads : handler[t].pc = "idle") =>
            /\ n \notin NamesOf(services)
            /\ n \notin seen_services

\* C17: a handler holds the lock only in the step that changes the
\* registry, never while it resolves, waits or prints, and perform_scan
\* holds it only to take the snapshot; whoever holds the lock releases it,
\* so in the end the scan has taken its snapshot and ended, the lock is
\* free and every handler that came to the lock has finished, even when a
\* resolution never returns.
C17_NoLockAcrossIO ==
    /\ [](\A t \in Threads : lock = t <=> handler[t].pc = "locked")
    /\ [](lock = "main" <=> scanPc = "Locked")
    /\ <>[](/\ ScanEnded
            /\ lock = "free"
            /\ \A t \in Threads : handler[t].pc \in {"idle", "resolve"})

\* The scan has ended with a record one handler registered while the other
\* handler is still waiting for its resolution.
C17_Witness ==
    /\ ScanEnded
    /\ lock = "free"
    /\ services # <<>>
    /\ \E t \in Threads : handler[t].pc = "resolve"

\* the step in which thread t's update_service rewrites the record of a
\* known identity
KnownUpdate(t) == LockedStep(t, "update") /\ handler[t].name \in NamesOf(services)

\* C18 as stated: after an update for a known identity, every field and
\* every property key that the incoming info carries has the incoming
\* value, and every field and every property key that the record had and
\* the incoming info lacks is still there with its old value.
C18_MergeNeverShrinks ==
    [][\A t \in Threads :
          KnownUpdate(t) =>
             LET i    == FirstIndex(services, handler[t].name)
                 old  == services[i]
                 new  == services'[i]
                 info == handler[t].info
             IN /\ \A k \in DOMAIN info \ {"properties"} : new[k] = info[k]
                /\ \A k \in DOMAIN old \ DOMAIN info : k \in DOMAIN new /\ new[k] = old[k]
                /\ \A k \in DOMAIN info.properties :
                      k \in DOMAIN new.properties /\ new.properties[k] = info.properties[k]
                /\ \A k \in DOMAIN old.properties \ DOMAIN info.properties :
                      k \in DOMAIN new.properties /\ new.properties[k] = old.properties[k]]_vars

\* C18 amended: after an update for a known identity the record is where
\* it was, every field that the incoming info carries has the incoming
\* value, the properties mapping among them as a whole (a property key the
\* incoming info lacks is gone), every field the incoming info lacks is
\* kept, and no other record has changed.
C18_FieldsReplaced ==
    [][\A t \in Threads :
          KnownUpdate(t) =>
             LET i    == FirstIndex(services, handler[t].name)
                 old  == services[i]
                 new  == services'[i]
                 info == handler[t].info
             IN /\ Len(services') = Len(services)
                /\ \A k \in DOMAIN info : k \in DOMAIN new /\ new[k] = info[k]
                /\ \A k \in DOMAIN old \ DOMAIN info : k \in DOMAIN new /\ new[k] = old[k]
                /\ DOMAIN new.properties = DOMAIN info.properties
                /\ \A j \in DOMAIN services : j # i => services'[j] = services[j]]_vars

\* A record was added with the properties v and m, an update whose info
\* has the property v alone has rewritten it, and the record has v alone.
C18_Witness ==
    \E t, u \in Threads :
        /\ handler[t].pc = "print" /\ handler[t].kind = "add"
        /\ handler[u].pc = "print" /\ handler[u].kind = "update"
        /\ handler[u].name = handler[t].name
        /\ DOMAIN handler[t].info.properties = {"v", "m"}
        /\ DOMAIN handler[u].info.properties = {"v"}
        /\ services = <<handler[u].info>>

====
